---- MODULE Spec2Model ----
(***************************************************************************)
(* A model of scripts/link_fallback.c: the LD_PRELOAD shim that overrides  *)
(* link, linkat, rename, renameat and renameat2 and emulates them by a     *)
(* copy when the genuine call fails with EXDEV.                            *)
(*                                                                         *)
(* The state is a small filesystem (directory entries, inodes, the         *)
(* process's descriptor table, its umask), the shim's static function      *)
(* pointers, and for every thread the position inside the intercepted      *)
(* call with the locals of the C functions.  Every system call is one      *)
(* atomic step, so threads interleave between system calls.                *)
(***************************************************************************)
EXTENDS Integers, Sequences, FiniteSets, TLC

(***************************** bounds **************************************)
\* length of the content of file "a" (the long source file)
MaxLen == 2
\* number of intercepted calls one thread issues in a behaviour
MaxCalls == 1
\* number of system-call failures the environment injects in a behaviour
MaxFaults == 2
\* number of threads that issue calls concurrently in SpecConc
NThreads == 2

(***************************** constants ***********************************)
AT_FDCWD == -100
AT_EMPTY_PATH == 4096
RENAME_NOREPLACE == 1
S_IFREG == 32768
PermMask == 511

Threads == 1..NThreads
Paths == {"a", "c", "d", "b"}
Names == {"link", "linkat", "rename", "renameat", "renameat2"}

\* "a", "c" and "d" live on one filesystem, "b" on another one
Dev(p) == IF p = "b" THEN 2 ELSE 1

NoIno == 0
Inos == 1..(4 + 2 * NThreads)
CallerFd == 3
NoFd == -1
Fds == 3..(3 + 2 * NThreads)

FreeInode == [used |-> FALSE, data |-> <<>>, mode |-> 0, dev |-> 0]
ClosedFd == [ino |-> NoIno, pos |-> 0]

RECURSIVE BitAnd(_, _)
BitAnd(x, y) ==
    IF x = 0 \/ y = 0 THEN 0
    ELSE (x % 2) * (y % 2) + 2 * BitAnd(x \div 2, y \div 2)

Min(x, y) == IF x < y THEN x ELSE y

VARIABLES
    dir,        \* directory: path -> inode number, NoIno when absent
    inodes,     \* inode number -> [used, data, mode, dev]
    fdtab,      \* the process's descriptor table: fd -> [ino, pos]
    umask,      \* the process's file mode creation mask
    loader,     \* what dlsym(RTLD_NEXT, name) answers: "unknown" until asked
    real,       \* the static real_<name> pointers: "NULL" or "libc"
    asked,      \* how often each thread has called dlsym for each name
    crashed,    \* the process was killed (a call through a null pointer)
    faultsLeft, \* failures the environment may still inject
    callsLeft,  \* calls each thread may still issue
    menu,       \* the calls each thread's program may issue
    pc,         \* each thread's position
    call,       \* each thread's intercepted call: entry point and arguments
    errno,      \* each thread's errno
    ret,        \* each thread's return value of the intercepted call
    loc,        \* each thread's locals of the running functions
    gh          \* each thread's observation record of the current call

vars == <<dir, inodes, fdtab, umask, loader, real, asked, crashed, faultsLeft,
          callsLeft, menu, pc, call, errno, ret, loc, gh>>

fsVars == <<dir, inodes, fdtab>>

(*************************** the call menu *********************************)
\* a null pointer passed as a path
NullPath == "NULL"

\* !oldpath || oldpath[0] == '\0'
IsEmptyPath(p) == p = NullPath \/ p = ""

MkCall(op, odfd, old, ndfd, new, flags) ==
    [op |-> op, olddirfd |-> odfd, oldpath |-> old,
     newdirfd |-> ndfd, newpath |-> new, flags |-> flags]

NoCall == MkCall("none", AT_FDCWD, "", AT_FDCWD, "", 0)

OldPaths == {"a", "c"}
NewPaths == {"b", "d"}

AllCalls ==
    {MkCall(op, AT_FDCWD, o, AT_FDCWD, n, 0) :
        op \in {"link", "linkat", "rename", "renameat", "renameat2"},
        o \in OldPaths, n \in NewPaths}
    \cup {MkCall("linkat", CallerFd, o, AT_FDCWD, n, AT_EMPTY_PATH) :
            o \in {"", NullPath}, n \in NewPaths}
    \cup {MkCall("renameat2", AT_FDCWD, o, AT_FDCWD, n, RENAME_NOREPLACE) :
            o \in OldPaths, n \in NewPaths}

\* the cross-device calls several threads race on: each thread links or
\* renames its own source file onto the one destination "b"
RaceCalls(t, ops) ==
    {MkCall(op, AT_FDCWD, IF t % 2 = 1 THEN "a" ELSE "c", AT_FDCWD, "b", 0) : op \in ops}

(*************************** the filesystem ********************************)
\* inodes that no directory entry and no descriptor refers to are released
Collect(d, i, f) ==
    [n \in Inos |->
        IF (\E p \in Paths : d[p] = n) \/ (\E x \in Fds : f[x].ino = n)
        THEN i[n] ELSE FreeInode]

FreeIno(i) == CHOOSE n \in Inos : ~i[n].used /\ \A m \in Inos : ~i[m].used => n <= m
FreeFdNo(f) == CHOOSE x \in Fds : f[x].ino = NoIno /\ \A y \in Fds : f[y].ino = NoIno => x <= y

\* the mode a file created by open(path, O_CREAT, mode) gets
CreateMode(mode, um) == S_IFREG + (BitAnd(mode, 4095) - BitAnd(BitAnd(mode, 4095), um))

\* the file a path names, resolved against a directory descriptor
ResolveAt(dirfd, path) == path

InoData(i, n) == IF n = NoIno THEN <<>> ELSE i[n].data
InoMode(i, n) == IF n = NoIno THEN 0 ELSE i[n].mode
InoDev(i, n) == IF n = NoIno THEN 0 ELSE i[n].dev

\* the bytes of src from offset off, at most cnt of them
\* (Slice_FromStart: a sendfile that never advances the offset cursor)
Slice_FromStart(data, off, cnt) == SubSeq(data, 1, Min(Len(data), cnt))
Slice(data, off, cnt) == SubSeq(data, off + 1, Min(Len(data), off + cnt))

\* data after writing bytes at position pos (the gap, if any, reads as 0)
WriteAt(data, pos, bytes) ==
    LET end == IF Len(data) > pos + Len(bytes) THEN Len(data) ELSE pos + Len(bytes)
    IN [k \in 1..end |->
          IF k > pos /\ k <= pos + Len(bytes) THEN bytes[k - pos]
          ELSE IF k <= Len(data) THEN data[k] ELSE 0]

(*************************** per-thread records ****************************)
LocInit ==
    [fn |-> "none", fb |-> "none", src_fd |-> NoFd, dst_fd |-> NoFd,
     args |-> NoCall, st_mode |-> 0, offset |-> 0, remaining |-> 0, result |-> 0]

\* the steps of a fallback whose attempts are counted ("copy" is the call of
\* copy_fd, whose own size query and transfers are parts of that one step)
CountedSteps == {"open_src", "fstat", "unlink_dst", "open_dst", "copy", "unlink_src"}

\* what an observer records about a call: the genuine call made, the system
\* calls the shim itself issued, the descriptors it holds, the failing step,
\* how often each step was attempted and the steps attempted after a failure
GhInit ==
    [gFn |-> "none", gArgs |-> NoCall, gRet |-> 0, gErr |-> "0",
     fsops |-> {}, owned |-> {}, badClose |-> FALSE,
     failStep |-> "none", failErrno |-> "0", closeFail |-> {},
     oldIno |-> NoIno, oldData |-> <<>>, oldMode |-> 0,
     newIno |-> NoIno, newData |-> <<>>,
     tries |-> [s \in CountedSteps |-> 0], afterFail |-> {}]

SrcInoOf(c, d, f) ==
    IF IsEmptyPath(c.oldpath) THEN f[c.olddirfd].ino
    ELSE d[ResolveAt(c.olddirfd, c.oldpath)]

GhStart(c) ==
    LET oi == SrcInoOf(c, dir, fdtab)
        ni == dir[ResolveAt(c.newdirfd, c.newpath)]
    IN [GhInit EXCEPT !.oldIno = oi, !.oldData = InoData(inodes, oi),
                      !.oldMode = InoMode(inodes, oi),
                      !.newIno = ni, !.newData = InoData(inodes, ni)]

Logged(g, op) == [g EXCEPT !.fsops = @ \cup {op}]
Failed(g, step, e) ==
    IF g.failStep = "none" THEN [g EXCEPT !.failStep = step, !.failErrno = e] ELSE g

\* a step is attempted
Tried(g, step) ==
    [g EXCEPT !.tries = IF step \in CountedSteps THEN [@ EXCEPT ![step] = @ + 1] ELSE @,
              !.afterFail = IF g.failStep # "none" THEN @ \cup {step} ELSE @]

\* the outcome of removing the destination: that it does not exist counts
\* as success, any other error as a failure of the step
Noted(g, step, out) ==
    IF out \notin {"ok", "ENOENT"} THEN Failed(g, step, out) ELSE g

(******************************* Init **************************************)
InitFs ==
    /\ \E bExists \in BOOLEAN :
         /\ dir = [p \in Paths |->
                     CASE p = "a" -> 1
                       [] p = "c" -> 2
                       [] p = "b" -> IF bExists THEN 3 ELSE NoIno
                       [] OTHER -> NoIno]
         /\ inodes = [n \in Inos |->
                     CASE n = 1 -> [used |-> TRUE, data |-> [k \in 1..MaxLen |-> k],
                                    mode |-> S_IFREG + 420, dev |-> 1]
                       [] n = 2 -> [used |-> TRUE, data |-> <<7>>,
                                    mode |-> S_IFREG + 2486, dev |-> 1]
                       [] n = 3 /\ bExists ->
                                   [used |-> TRUE, data |-> [k \in 1..(MaxLen + 1) |-> 9],
                                    mode |-> S_IFREG + 384, dev |-> 2]
                       [] OTHER -> FreeInode]
    /\ fdtab = [x \in Fds |-> IF x = CallerFd THEN [ino |-> 1, pos |-> 1] ELSE ClosedFd]
    /\ umask \in {0, 18}

InitThreads ==
    /\ real = [n \in Names |-> "NULL"]
    /\ asked = [t \in Threads |-> [n \in Names |-> 0]]
    /\ crashed = FALSE
    /\ pc = [t \in Threads |-> "idle"]
    /\ call = [t \in Threads |-> NoCall]
    /\ ret = [t \in Threads |-> 0]
    /\ loc = [t \in Threads |-> LocInit]
    /\ gh = [t \in Threads |-> GhInit]

\* one thread issues any of the calls; the environment may inject failures
Init ==
    /\ InitFs
    /\ InitThreads
    /\ loader = [n \in Names |-> "unknown"]
    /\ \E e \in {"0", "EXDEV"} : errno = [t \in Threads |-> e]
    /\ faultsLeft = MaxFaults
    /\ callsLeft = [t \in Threads |-> MaxCalls]
    /\ menu = [t \in Threads |-> IF t = 1 THEN AllCalls ELSE {}]

\* concurrent callers of one destination "b", on a platform that has all
\* five genuine functions, with no failure injected: either every thread
\* issues one cross-device link, or the first two threads each issue one
\* cross-device link or rename
InitConc ==
    /\ InitFs
    /\ umask = 18
    /\ InitThreads
    /\ loader = [n \in Names |-> "libc"]
    /\ errno = [t \in Threads |-> "0"]
    /\ faultsLeft = 0
    /\ callsLeft = [t \in Threads |-> 1]
    /\ \/ menu = [t \in Threads |-> RaceCalls(t, {"link"})]
       \/ menu = [t \in Threads |->
                    IF t <= 2 THEN RaceCalls(t, {"link", "rename"}) ELSE {}]

(********************* the genuine calls (libc, kernel) ********************)
IsLinkFn(fn) == fn \in {"link", "linkat"}

\* the inode the genuine call takes as its source
GenuineSrc(a, d, f) ==
    IF IsEmptyPath(a.oldpath)
    THEN IF BitAnd(a.flags, AT_EMPTY_PATH) # 0 THEN f[a.olddirfd].ino ELSE NoIno
    ELSE d[ResolveAt(a.olddirfd, a.oldpath)]

\* the device the source is looked up on
GenuineSrcDev(a, d, i, f) ==
    IF IsEmptyPath(a.oldpath) THEN InoDev(i, GenuineSrc(a, d, f)) ELSE Dev(a.oldpath)

\* the errors that apply to the genuine call; POSIX fixes no order among
\* them, so the genuine call may report any one of them (a null path is a
\* bad address, or is taken like the empty path)
GenuineErrors(fn, a, d, i, f) ==
    LET src == GenuineSrc(a, d, f)
        new == ResolveAt(a.newdirfd, a.newpath)
    IN (IF src = NoIno THEN {"ENOENT"} ELSE {})
       \cup (IF a.oldpath = NullPath THEN {"EFAULT"} ELSE {})
       \cup (IF IsLinkFn(fn) /\ d[new] # NoIno THEN {"EEXIST"} ELSE {})
       \cup (IF fn = "renameat2" /\ BitAnd(a.flags, RENAME_NOREPLACE) # 0 /\ d[new] # NoIno
             THEN {"EEXIST"} ELSE {})
       \cup (IF (src # NoIno \/ ~IsEmptyPath(a.oldpath)) /\ GenuineSrcDev(a, d, i, f) # Dev(new)
             THEN {"EXDEV"} ELSE {})

\* the directory after the genuine call succeeded
GenuineDir(fn, a, d, f) ==
    LET src == GenuineSrc(a, d, f)
        new == ResolveAt(a.newdirfd, a.newpath)
    IN IF IsLinkFn(fn) THEN [d EXCEPT ![new] = src]
       ELSE IF d[new] = src THEN d
       ELSE [d EXCEPT ![new] = src, ![ResolveAt(a.olddirfd, a.oldpath)] = NoIno]

(***************************** entry points ********************************)
\* result == 0 || errno != EXDEV returns; anything else falls back
\* (ShouldFallback_NoResultTest: the test of errno alone)
ShouldFallback_NoResultTest(result, e) == e = "EXDEV"
ShouldFallback(result, e) == ~(result = 0 \/ e # "EXDEV")

\* renameat2: if (flags != 0) return result;
\* (Renameat2FallsBack_Always: the test left out)
Renameat2FallsBack_Always(flags) == TRUE
Renameat2FallsBack(flags) == ~(flags # 0)

\* renameat2 without a genuine renameat2: if (flags == 0) return renameat(...)
\* (NullRenameat2Delegates_Always: the test left out)
NullRenameat2Delegates_Always(flags) == TRUE
NullRenameat2Delegates(flags) == flags = 0

\* the arguments renameat2 hands to renameat
\* (DelegateArgs_Swapped: old and new exchanged)
DelegateArgs_Swapped(a) == MkCall("renameat", a.newdirfd, a.newpath, a.olddirfd, a.oldpath, 0)
DelegateArgs(a) == MkCall("renameat", a.olddirfd, a.oldpath, a.newdirfd, a.newpath, 0)

\* the fallback an entry point runs on EXDEV
\* (FallbackOf_AlwaysMove: link routed to the move fallback)
FallbackOf_AlwaysMove(fn, a) == "move_path"
FallbackOf(fn, a) ==
    CASE fn = "link" -> "copy_path"
      [] fn = "linkat" ->
            IF BitAnd(a.flags, AT_EMPTY_PATH) # 0 /\ IsEmptyPath(a.oldpath)
            THEN "copy_fd" ELSE "linkat"
      [] fn = "rename" -> "move_path"
      [] OTHER -> "move_at"

IsMove(fb) == fb \in {"move_path", "move_at"}

\* the caller issues one call of the menu; errno holds whatever an earlier
\* call of the thread left in it
Call(t) ==
    /\ ~crashed
    /\ pc[t] = "idle"
    /\ callsLeft[t] > 0
    /\ \E c \in menu[t] :
         /\ call' = [call EXCEPT ![t] = c]
         /\ loc' = [loc EXCEPT ![t] = [LocInit EXCEPT !.fn = c.op, !.args = c]]
         /\ gh' = [gh EXCEPT ![t] = GhStart(c)]
    /\ ret' = [ret EXCEPT ![t] = 0]
    /\ pc' = [pc EXCEPT ![t] = "entry"]
    /\ callsLeft' = [callsLeft EXCEPT ![t] = @ - 1]
    /\ UNCHANGED <<fsVars, umask, loader, real, asked, crashed, faultsLeft, menu, errno>>

\* if (!real_fn): the cached pointer is null, the loader is to be asked
\* (NeedsLookup_Always: no test, the loader asked by every invocation)
NeedsLookup_Always(cached) == TRUE
NeedsLookup(cached) == cached = "NULL"

\* if (!real_fn)
Entry(t) ==
    /\ ~crashed
    /\ pc[t] = "entry"
    /\ pc' = [pc EXCEPT ![t] = IF NeedsLookup(real[loc[t].fn]) THEN "dlsym" ELSE "call_real"]
    /\ UNCHANGED <<fsVars, umask, loader, real, asked, crashed, faultsLeft, callsLeft,
                   menu, call, errno, ret, loc, gh>>

\* real_fn = dlsym(RTLD_NEXT, "fn")
Dlsym(t) ==
    /\ ~crashed
    /\ pc[t] = "dlsym"
    /\ \E ans \in (IF loader[loc[t].fn] = "unknown" THEN {"libc", "NULL"}
                   ELSE {loader[loc[t].fn]}) :
         /\ loader' = [loader EXCEPT ![loc[t].fn] = ans]
         /\ real' = [real EXCEPT ![loc[t].fn] = ans]
    /\ asked' = [asked EXCEPT ![t][loc[t].fn] = @ + 1]
    /\ pc' = [pc EXCEPT ![t] = "call_real"]
    /\ UNCHANGED <<fsVars, umask, crashed, faultsLeft, callsLeft,
                   menu, call, errno, ret, loc, gh>>

\* result = real_fn(...), and what the entry point does with the result
CallReal(t) ==
    LET fn == loc[t].fn
        a  == loc[t].args
    IN
    /\ ~crashed
    /\ pc[t] = "call_real"
    /\ IF real[fn] = "NULL"
       THEN IF fn = "renameat2"
            THEN IF NullRenameat2Delegates(a.flags)
                 THEN /\ loc' = [loc EXCEPT ![t].fn = "renameat", ![t].args = DelegateArgs(a)]
                      /\ pc' = [pc EXCEPT ![t] = "entry"]
                      /\ UNCHANGED <<fsVars, crashed, errno, ret, gh>>
                 ELSE /\ errno' = [errno EXCEPT ![t] = "ENOSYS"]
                      /\ ret' = [ret EXCEPT ![t] = -1]
                      /\ pc' = [pc EXCEPT ![t] = "done"]
                      /\ UNCHANGED <<fsVars, crashed, loc, gh>>
            ELSE \* a call through a null function pointer
                 /\ crashed' = TRUE
                 /\ pc' = [pc EXCEPT ![t] = "crashed"]
                 /\ UNCHANGED <<fsVars, errno, ret, loc, gh>>
       ELSE \E out \in (IF GenuineErrors(fn, a, dir, inodes, fdtab) = {} THEN {"ok"}
                        ELSE GenuineErrors(fn, a, dir, inodes, fdtab)) :
              LET result == IF out = "ok" THEN 0 ELSE -1
                  e      == IF out = "ok" THEN errno[t] ELSE out
                  d2     == IF out = "ok" THEN GenuineDir(fn, a, dir, fdtab) ELSE dir
                  falls  == /\ ShouldFallback(result, e)
                            /\ (fn = "renameat2" => Renameat2FallsBack(a.flags))
              IN /\ dir' = d2
                 /\ inodes' = Collect(d2, inodes, fdtab)
                 /\ errno' = [errno EXCEPT ![t] = e]
                 /\ gh' = [gh EXCEPT ![t].gFn = fn, ![t].gArgs = a,
                                     ![t].gRet = result, ![t].gErr = e]
                 /\ IF falls
                    THEN /\ loc' = [loc EXCEPT ![t].fb = FallbackOf(fn, a)]
                         /\ pc' = [pc EXCEPT ![t] = "open_src"]
                         /\ ret' = ret
                    ELSE /\ loc' = loc
                         /\ pc' = [pc EXCEPT ![t] = "done"]
                         /\ ret' = [ret EXCEPT ![t] = result]
                 /\ UNCHANGED <<fdtab, crashed>>
    /\ UNCHANGED <<umask, loader, real, asked, faultsLeft, callsLeft, menu, call>>

(************************** the fallback engine ****************************)
\* the failure the environment injects into a step, while it may
Inject(e) == IF faultsLeft > 0 THEN {e} ELSE {}
Spend(out, e) == IF out = e THEN faultsLeft - 1 ELSE faultsLeft

\* the errno each step's injected failure sets
InjectedAt(step) ==
    CASE step = "open_src" -> "EMFILE"
      [] step = "fstat" -> "EIO"
      [] step = "unlink_dst" -> "EPERM"
      [] step = "open_dst" -> "ENOSPC"
      [] step = "copy_fstat" -> "ENOMEM"
      [] step = "sendfile" -> "EINVAL"
      [] step = "unlink_src" -> "EBUSY"
      [] OTHER -> "EINTR"

\* whether a close may fail (EINTR; EIO for the descriptor written through),
\* given the failures left to inject
CloseFails(left) == IF left > 0 THEN BOOLEAN ELSE {FALSE}

\* close(fd)   (CloseFd_Leak: the close left out)
CloseFd_Leak(f, x) == f
CloseFd(f, x) == [f EXCEPT ![x] = ClosedFd]
GhOpen(g, x, op) == [Logged(g, op) EXCEPT !.owned = @ \cup {x}]
GhClose(g, x) ==
    IF x \in g.owned THEN [Logged(g, "close") EXCEPT !.owned = @ \ {x}]
    ELSE [Logged(g, "close") EXCEPT !.badClose = TRUE]

\* int saved = errno; close(...); errno = saved;
\* (RestoreErrno_Forgotten: errno = saved left out)
RestoreErrno_Forgotten(saved, afterClose) == afterClose
RestoreErrno(saved, afterClose) == saved

\* open(newpath, O_WRONLY | O_CREAT | O_EXCL ...) for the link fallbacks,
\* O_TRUNC in place of O_EXCL for the rename fallbacks
\* (OpenDstExcl_Never: O_TRUNC everywhere)
OpenDstExcl_Never(fb) == FALSE
OpenDstExcl(fb) == ~IsMove(fb)

\* the mode argument of the destination's open: st.st_mode & 0777
DstModeArg(st_mode) == BitAnd(st_mode, PermMask)

\* after a successful copy and the closes: the move fallbacks go on to
\* unlink(oldpath), the link fallbacks return 0
\* (AfterCopyOk_NoUnlink: the source removal left out;
\*  AfterCopyOk_PathsUnlink: every fallback given an old path removes it)
AfterCopyOk_NoUnlink(fb) == "done"
AfterCopyOk_PathsUnlink(fb) == IF fb = "copy_fd" THEN "done" ELSE "unlink_src"
AfterCopyOk(fb) == IF IsMove(fb) THEN "unlink_src" ELSE "done"

\* unlink(newpath) != 0 && errno != ENOENT aborts
\* (UnlinkDstAborts_Never: the result of the removal never looked at;
\*  UnlinkDstAborts_OnEnoent: errno != ENOENT left out)
UnlinkDstAborts_Never(e) == FALSE
UnlinkDstAborts_OnEnoent(e) == e # "ok"
UnlinkDstAborts(e) == e # "ok" /\ e # "ENOENT"

\* the error exits that close src_fd: saved = errno; close(src_fd);
\* errno = saved; return -1;  (the failing step has set errno to e)
ExitClosingSrc(t, step, e) ==
    \E cf \in CloseFails(Spend(e, InjectedAt(step))) :
      LET f2 == CloseFd(fdtab, loc[t].src_fd)
          afterClose == IF cf THEN "EINTR" ELSE e
          g1 == GhClose(Failed(Logged(Tried(gh[t], step), step), step, e), loc[t].src_fd)
      IN /\ fdtab' = f2
         /\ inodes' = Collect(dir, inodes, f2)
         /\ dir' = dir
         /\ faultsLeft' = Spend(e, InjectedAt(step)) - (IF cf THEN 1 ELSE 0)
         /\ errno' = [errno EXCEPT ![t] = RestoreErrno(e, afterClose)]
         /\ ret' = [ret EXCEPT ![t] = -1]
         /\ pc' = [pc EXCEPT ![t] = "done"]
         /\ gh' = [gh EXCEPT ![t] =
                     IF cf THEN [g1 EXCEPT !.closeFail = @ \cup {"src"}] ELSE g1]
         /\ loc' = loc

\* the descriptor a fallback reads the source through: the one its open,
\* openat or dup returned
\* (SrcFdOf_NoDup: the caller's descriptor used as it is, without the dup)
SrcFdOf_NoDup(fb, callerFd, fresh) == IF fb = "copy_fd" THEN callerFd ELSE fresh
SrcFdOf(fb, callerFd, fresh) == fresh

\* src_fd = open(oldpath, O_RDONLY | O_CLOEXEC), openat(olddirfd, ...), or
\* dup(src_fd_in)
OpenSrc(t) ==
    LET a   == loc[t].args
        fb  == loc[t].fb
        ino == IF fb = "copy_fd" THEN fdtab[a.olddirfd].ino
               ELSE dir[ResolveAt(a.olddirfd, a.oldpath)]
        nat == IF ino # NoIno THEN "ok" ELSE IF fb = "copy_fd" THEN "EBADF" ELSE "ENOENT"
        x   == SrcFdOf(fb, a.olddirfd, FreeFdNo(fdtab))
        op  == IF fb = "copy_fd" THEN "dup" ELSE "open"
    IN
    /\ ~crashed
    /\ pc[t] = "open_src"
    /\ \E out \in {nat} \cup Inject(InjectedAt("open_src")) :
         /\ faultsLeft' = Spend(out, InjectedAt("open_src"))
         /\ IF out = "ok"
            THEN /\ fdtab' = [fdtab EXCEPT ![x] =
                        [ino |-> ino,
                         pos |-> IF fb = "copy_fd" THEN fdtab[a.olddirfd].pos ELSE 0]]
                 /\ loc' = [loc EXCEPT ![t].src_fd = x]
                 /\ gh' = [gh EXCEPT ![t] = GhOpen(Tried(@, "open_src"), x, op)]
                 /\ pc' = [pc EXCEPT ![t] = "fstat"]
                 /\ UNCHANGED <<errno, ret>>
            ELSE /\ errno' = [errno EXCEPT ![t] = out]
                 /\ ret' = [ret EXCEPT ![t] = -1]
                 /\ gh' = [gh EXCEPT ![t] =
                             Failed(Logged(Tried(@, "open_src"), op), "open_src", out)]
                 /\ pc' = [pc EXCEPT ![t] = "done"]
                 /\ UNCHANGED <<fdtab, loc>>
    /\ UNCHANGED <<dir, inodes, umask, loader, real, asked, crashed, callsLeft, menu, call>>

\* fstat(src_fd, &st) of the fallback functions
Fstat(t) ==
    /\ ~crashed
    /\ pc[t] = "fstat"
    /\ \E out \in {"ok"} \cup Inject(InjectedAt("fstat")) :
         /\ IF out = "ok"
            THEN /\ faultsLeft' = faultsLeft
                 /\ loc' = [loc EXCEPT ![t].st_mode = inodes[fdtab[loc[t].src_fd].ino].mode]
                 /\ gh' = [gh EXCEPT ![t] = Logged(Tried(@, "fstat"), "fstat")]
                 /\ pc' = [pc EXCEPT ![t] =
                             IF IsMove(loc[t].fb) THEN "unlink_dst" ELSE "open_dst"]
                 /\ UNCHANGED <<fsVars, errno, ret>>
            ELSE ExitClosingSrc(t, "fstat", out)
    /\ UNCHANGED <<umask, loader, real, asked, crashed, callsLeft, menu, call>>

\* unlink(newpath) / unlinkat(newdirfd, newpath, 0) of the move fallbacks
UnlinkDst(t) ==
    LET a   == loc[t].args
        new == ResolveAt(a.newdirfd, a.newpath)
        nat == IF dir[new] = NoIno THEN "ENOENT" ELSE "ok"
        d2  == [dir EXCEPT ![new] = NoIno]
    IN
    /\ ~crashed
    /\ pc[t] = "unlink_dst"
    /\ \E out \in {nat} \cup Inject(InjectedAt("unlink_dst")) :
         /\ IF UnlinkDstAborts(out)
            THEN ExitClosingSrc(t, "unlink_dst", out)
            ELSE /\ faultsLeft' = faultsLeft
                 /\ dir' = d2
                 /\ inodes' = Collect(d2, inodes, fdtab)
                 /\ errno' = [errno EXCEPT ![t] = IF out = "ok" THEN @ ELSE out]
                 /\ gh' = [gh EXCEPT ![t] =
                             Logged(Noted(Tried(@, "unlink_dst"), "unlink_dst", out), "unlink")]
                 /\ pc' = [pc EXCEPT ![t] = "open_dst"]
                 /\ UNCHANGED <<fdtab, ret, loc>>
    /\ UNCHANGED <<umask, loader, real, asked, crashed, callsLeft, menu, call>>

\* dst_fd = open(newpath, O_WRONLY | O_CREAT | O_EXCL or O_TRUNC | O_CLOEXEC,
\*               st.st_mode & 0777)
OpenDst(t) ==
    LET a    == loc[t].args
        new  == ResolveAt(a.newdirfd, a.newpath)
        old  == dir[new]
        nat  == IF old # NoIno /\ OpenDstExcl(loc[t].fb) THEN "EEXIST" ELSE "ok"
        n    == IF old # NoIno THEN old ELSE FreeIno(inodes)
        file == IF old # NoIno THEN [inodes[old] EXCEPT !.data = <<>>]
                ELSE [used |-> TRUE, data |-> <<>>,
                      mode |-> CreateMode(DstModeArg(loc[t].st_mode), umask),
                      dev |-> Dev(new)]
        x    == FreeFdNo(fdtab)
    IN
    /\ ~crashed
    /\ pc[t] = "open_dst"
    /\ \E out \in {nat} \cup Inject(InjectedAt("open_dst")) :
         /\ IF out = "ok"
            THEN /\ faultsLeft' = faultsLeft
                 /\ dir' = [dir EXCEPT ![new] = n]
                 /\ inodes' = [inodes EXCEPT ![n] = file]
                 /\ fdtab' = [fdtab EXCEPT ![x] = [ino |-> n, pos |-> 0]]
                 /\ loc' = [loc EXCEPT ![t].dst_fd = x]
                 /\ gh' = [gh EXCEPT ![t] =
                             GhOpen(Tried(@, "open_dst"), x,
                                    IF old # NoIno THEN "trunc" ELSE "creat")]
                 /\ pc' = [pc EXCEPT ![t] = "copy_fstat"]
                 /\ UNCHANGED <<errno, ret>>
            ELSE ExitClosingSrc(t, "open_dst", out)
    /\ UNCHANGED <<umask, loader, real, asked, crashed, callsLeft, menu, call>>

(**************************** copy_fd **************************************)
\* the byte counts one sendfile may move: all that it can, or a single byte
SentChoices(avail, count) ==
    IF avail <= 0 THEN {0} ELSE {1, Min(avail, count)}

\* off_t offset = 0; fstat(src_fd, &st); remaining = st.st_size;
CopyFstat(t) ==
    LET size == Len(inodes[fdtab[loc[t].src_fd].ino].data)
    IN
    /\ ~crashed
    /\ pc[t] = "copy_fstat"
    /\ \E out \in {"ok"} \cup Inject(InjectedAt("copy_fstat")) :
         /\ faultsLeft' = Spend(out, InjectedAt("copy_fstat"))
         /\ IF out = "ok"
            THEN /\ loc' = [loc EXCEPT ![t].offset = 0, ![t].remaining = size,
                                       ![t].result = 0]
                 /\ gh' = [gh EXCEPT ![t] = Logged(Tried(@, "copy"), "fstat")]
                 /\ pc' = [pc EXCEPT ![t] = "while"]
                 /\ errno' = errno
            ELSE /\ loc' = [loc EXCEPT ![t].result = -1]
                 /\ gh' = [gh EXCEPT ![t] =
                             Failed(Logged(Tried(@, "copy"), "fstat"), "copy_fstat", out)]
                 /\ pc' = [pc EXCEPT ![t] = "close"]
                 /\ errno' = [errno EXCEPT ![t] = out]
    /\ UNCHANGED <<fsVars, umask, loader, real, asked, crashed, callsLeft, menu, call, ret>>

\* while (remaining > 0) ... return 0;
WhileRemaining(t) ==
    /\ ~crashed
    /\ pc[t] = "while"
    /\ pc' = [pc EXCEPT ![t] = IF loc[t].remaining > 0 THEN "sendfile" ELSE "close"]
    /\ UNCHANGED <<fsVars, umask, loader, real, asked, crashed, faultsLeft, callsLeft,
                   menu, call, errno, ret, loc, gh>>

\* the loop's body: sent = sendfile(dst_fd, src_fd, &offset, remaining);
\* if (sent < 0) return -1; remaining -= sent;
Sendfile(t) ==
    LET l     == loc[t]
        sino  == fdtab[l.src_fd].ino
        dino  == fdtab[l.dst_fd].ino
        sdata == inodes[sino].data
        avail == Len(sdata) - l.offset
    IN
    /\ ~crashed
    /\ pc[t] = "sendfile"
    /\ \E out \in {"ok"} \cup Inject(InjectedAt("sendfile")) :
         /\ faultsLeft' = Spend(out, InjectedAt("sendfile"))
         /\ IF out = "ok"
            THEN \E sent \in SentChoices(avail, l.remaining) :
                   /\ inodes' = [inodes EXCEPT ![dino].data =
                                   WriteAt(@, fdtab[l.dst_fd].pos, Slice(sdata, l.offset, sent))]
                   /\ fdtab' = [fdtab EXCEPT ![l.dst_fd].pos = @ + sent]
                   /\ loc' = [loc EXCEPT ![t].offset = @ + sent,
                                         ![t].remaining = @ - sent]
                   /\ gh' = [gh EXCEPT ![t] =
                               IF sent > 0
                               THEN Logged(Logged(Tried(@, "sendfile"), "sendfile"), "write")
                               ELSE Logged(Tried(@, "sendfile"), "sendfile")]
                   /\ pc' = [pc EXCEPT ![t] = "while"]
                   /\ errno' = errno
            ELSE /\ loc' = [loc EXCEPT ![t].result = -1]
                 /\ gh' = [gh EXCEPT ![t] =
                             Failed(Logged(Tried(@, "sendfile"), "sendfile"), "sendfile", out)]
                 /\ pc' = [pc EXCEPT ![t] = "close"]
                 /\ errno' = [errno EXCEPT ![t] = out]
                 /\ UNCHANGED <<inodes, fdtab>>
    /\ UNCHANGED <<dir, umask, loader, real, asked, crashed, callsLeft, menu, call, ret>>

\* if (result != 0): the copy failed
\* (CopyFailed_Ignored: the result of copy_fd never looked at)
CopyFailed_Ignored(result) == FALSE
CopyFailed(result) == result # 0

\* what a file holds after the close of the descriptor it was written
\* through: a close that fails reports a write that did not reach the file,
\* and any tail of the content may be missing
AfterClose(failed, data) ==
    IF failed THEN {SubSeq(data, 1, k) : k \in 0..Len(data)} ELSE {data}

\* int saved = errno; close(src_fd); close(dst_fd);
\* if (result != 0) { errno = saved; return -1; }
\* and, in the link fallbacks, return 0
CloseBoth(t) ==
    LET l    == loc[t]
        f2   == CloseFd(CloseFd(fdtab, l.src_fd), l.dst_fd)
        dino == fdtab[l.dst_fd].ino
    IN
    /\ ~crashed
    /\ pc[t] = "close"
    /\ \E cs \in CloseFails(faultsLeft), cd \in CloseFails(faultsLeft) :
         \E kept \in AfterClose(cd, inodes[dino].data) :
         LET saved == errno[t]
             afterClose == IF cd THEN "EIO" ELSE IF cs THEN "EINTR" ELSE saved
             g1 == GhClose(GhClose(gh[t], l.src_fd), l.dst_fd)
             g2 == [g1 EXCEPT !.closeFail = @ \cup (IF cs THEN {"src"} ELSE {})
                                               \cup (IF cd THEN {"dst"} ELSE {})]
         IN /\ faultsLeft >= (IF cs THEN 1 ELSE 0) + (IF cd THEN 1 ELSE 0)
            /\ faultsLeft' = faultsLeft - (IF cs THEN 1 ELSE 0) - (IF cd THEN 1 ELSE 0)
            /\ gh' = [gh EXCEPT ![t] = g2]
            /\ inodes' = Collect(dir, [inodes EXCEPT ![dino].data = kept], f2)
            /\ IF CopyFailed(l.result)
               THEN /\ errno' = [errno EXCEPT ![t] = RestoreErrno(saved, afterClose)]
                    /\ ret' = [ret EXCEPT ![t] = -1]
                    /\ pc' = [pc EXCEPT ![t] = "done"]
               ELSE /\ errno' = [errno EXCEPT ![t] = afterClose]
                    /\ ret' = ret
                    /\ pc' = [pc EXCEPT ![t] = AfterCopyOk(l.fb)]
    /\ fdtab' = f2
    /\ UNCHANGED <<dir, umask, loader, real, asked, crashed, callsLeft, menu, call, loc>>

\* if (unlink(oldpath) != 0) return -1; return 0;   (unlinkat in move_at)
UnlinkSrc(t) ==
    LET a   == loc[t].args
        old == ResolveAt(a.olddirfd, a.oldpath)
        nat == IF dir[old] = NoIno THEN "ENOENT" ELSE "ok"
        d2  == [dir EXCEPT ![old] = NoIno]
    IN
    /\ ~crashed
    /\ pc[t] = "unlink_src"
    /\ \E out \in {nat} \cup Inject(InjectedAt("unlink_src")) :
         /\ faultsLeft' = Spend(out, InjectedAt("unlink_src"))
         /\ IF out = "ok"
            THEN /\ dir' = d2
                 /\ inodes' = Collect(d2, inodes, fdtab)
                 /\ ret' = [ret EXCEPT ![t] = 0]
                 /\ gh' = [gh EXCEPT ![t] = Logged(Tried(@, "unlink_src"), "unlink_src")]
                 /\ errno' = errno
            ELSE /\ errno' = [errno EXCEPT ![t] = out]
                 /\ ret' = [ret EXCEPT ![t] = -1]
                 /\ gh' = [gh EXCEPT ![t] =
                             Failed(Logged(Tried(@, "unlink_src"), "unlink_src"),
                                    "unlink_src", out)]
                 /\ UNCHANGED <<dir, inodes>>
    /\ pc' = [pc EXCEPT ![t] = "done"]
    /\ UNCHANGED <<fdtab, umask, loader, real, asked, crashed, callsLeft, menu, call, loc>>

\* the intercepted call has returned; the caller goes on
Return(t) ==
    /\ ~crashed
    /\ pc[t] = "done"
    /\ pc' = [pc EXCEPT ![t] = "idle"]
    /\ call' = [call EXCEPT ![t] = NoCall]
    /\ loc' = [loc EXCEPT ![t] = LocInit]
    /\ gh' = [gh EXCEPT ![t] = GhInit]
    /\ ret' = [ret EXCEPT ![t] = 0]
    /\ UNCHANGED <<fsVars, umask, loader, real, asked, crashed, faultsLeft, callsLeft,
                   menu, errno>>

Next ==
    \E t \in Threads :
        \/ Call(t)
        \/ Entry(t)
        \/ Dlsym(t)
        \/ CallReal(t)
        \/ OpenSrc(t)
        \/ Fstat(t)
        \/ UnlinkDst(t)
        \/ OpenDst(t)
        \/ CopyFstat(t)
        \/ WhileRemaining(t)
        \/ Sendfile(t)
        \/ CloseBoth(t)
        \/ UnlinkSrc(t)
        \/ Return(t)

Spec == Init /\ [][Next]_vars

SpecConc == InitConc /\ [][Next]_vars

\* the calls a thread repeats: renameat2 of its own source onto "b",
\* without and with a flag, and a link onto "d"
MemoCalls(t) ==
    LET src == IF t % 2 = 1 THEN "a" ELSE "c"
    IN {MkCall("renameat2", AT_FDCWD, src, AT_FDCWD, "b", 0),
        MkCall("renameat2", AT_FDCWD, src, AT_FDCWD, "b", RENAME_NOREPLACE),
        MkCall("link", AT_FDCWD, src, AT_FDCWD, "d", 0)}

\* a thread that issues MaxCalls + 1 calls in a row beside a thread that
\* issues one, on a platform whose loader may or may not have a next
\* definition of each name, with no failure injected
InitMemo ==
    /\ InitFs
    /\ umask = 18
    /\ InitThreads
    /\ loader = [n \in Names |-> "unknown"]
    /\ errno = [t \in Threads |-> "0"]
    /\ faultsLeft = 0
    /\ callsLeft = [t \in Threads |-> IF t = 1 THEN MaxCalls + 1 ELSE 1]
    /\ menu = [t \in Threads |-> IF t <= 2 THEN MemoCalls(t) ELSE {}]

SpecMemo == InitMemo /\ [][Next]_vars

\* another process truncates a source file to a shorter length
Shrink ==
    /\ ~crashed
    /\ \E p \in OldPaths :
         /\ dir[p] # NoIno
         /\ \E k \in 0..(Len(inodes[dir[p]].data) - 1) :
              inodes' = [inodes EXCEPT ![dir[p]].data = SubSeq(@, 1, k)]
    /\ UNCHANGED <<dir, fdtab, umask, loader, real, asked, crashed, faultsLeft, callsLeft,
                   menu, pc, call, errno, ret, loc, gh>>

NextShrink == Next \/ Shrink

\* the one caller of Spec beside a process that truncates the source files;
\* a thread inside an intercepted call keeps running
SpecShrink == Init /\ [][NextShrink]_vars /\ WF_vars(Next)

(***************************************************************************)
(*                              The claims                                 *)
(***************************************************************************)
Done(t) == pc[t] = "done"
NewOf(t) == ResolveAt(call[t].newdirfd, call[t].newpath)
OldOf(t) == ResolveAt(call[t].olddirfd, call[t].oldpath)

\* the genuine call of thread t's current call returned the cross-device error
HitExdev(t) == gh[t].gFn # "none" /\ gh[t].gRet # 0 /\ gh[t].gErr = "EXDEV"

\* the environment injected a failure into thread t's current call
Injected(t) ==
    \/ gh[t].failStep # "none" /\ gh[t].failErrno = InjectedAt(gh[t].failStep)
    \/ gh[t].closeFail # {}

\* the file permission bits of a mode
PermBits(m) == BitAnd(m, 511)

\* C1: for link, linkat, rename and renameat the fallback runs if and only
\* if the genuine call returned non-zero with errno EXDEV; otherwise the
\* entry point returns the genuine return value and errno and issues no
\* system call of its own.
C1_FallbackIffExdev ==
    \A t \in Threads :
        (call[t].op \in {"link", "linkat", "rename", "renameat"} /\ gh[t].gFn # "none")
        => /\ (loc[t].fb # "none") <=> (gh[t].gRet # 0 /\ gh[t].gErr = "EXDEV")
           /\ (loc[t].fb = "none") => gh[t].fsops = {}
           /\ (Done(t) /\ loc[t].fb # "none") => gh[t].fsops # {}
           /\ (Done(t) /\ loc[t].fb = "none")
                => ret[t] = gh[t].gRet /\ errno[t] = gh[t].gErr

\* C1 witness: a genuine call that succeeded while errno still held a stale
\* EXDEV was passed through
C1_Witness ==
    \E t \in Threads :
        /\ Done(t) /\ call[t].op = "rename"
        /\ gh[t].gRet = 0 /\ gh[t].gErr = "EXDEV" /\ ret[t] = 0

\* C2: link(A,B) that hits the cross-device condition with B absent and no
\* failing fallback step returns 0; B then holds A's content as of the call,
\* A still exists with that content, and A and B are distinct files.
C2_LinkCopies ==
    \A t \in Threads :
        (/\ Done(t) /\ call[t].op = "link" /\ HitExdev(t)
         /\ gh[t].newIno = NoIno /\ gh[t].failStep = "none" /\ gh[t].closeFail = {})
        => /\ ret[t] = 0
           /\ dir[NewOf(t)] # NoIno
           /\ InoData(inodes, dir[NewOf(t)]) = gh[t].oldData
           /\ dir[OldOf(t)] = gh[t].oldIno
           /\ dir[OldOf(t)] # NoIno
           /\ InoData(inodes, dir[OldOf(t)]) = gh[t].oldData
           /\ dir[NewOf(t)] # dir[OldOf(t)]

\* C2 witness: such a link of the long file "a" returned 0
C2_Witness ==
    \E t \in Threads :
        /\ Done(t) /\ call[t].op = "link" /\ call[t].oldpath = "a" /\ HitExdev(t)
        /\ gh[t].newIno = NoIno /\ gh[t].failStep = "none" /\ gh[t].closeFail = {}
        /\ ret[t] = 0
        /\ Len(InoData(inodes, dir[NewOf(t)])) = MaxLen

\* C3 as stated: link or linkat that hits the cross-device condition with B
\* present returns -1 with errno EEXIST, leaves B as it was and copies nothing.
C3_Original ==
    \A t \in Threads :
        (/\ Done(t) /\ call[t].op \in {"link", "linkat"} /\ HitExdev(t)
         /\ gh[t].newIno # NoIno)
        => /\ ret[t] = -1
           /\ errno[t] = "EEXIST"
           /\ dir[NewOf(t)] = gh[t].newIno
           /\ InoData(inodes, dir[NewOf(t)]) = gh[t].newData
           /\ gh[t].fsops \cap {"write", "creat", "trunc", "unlink", "unlink_src"} = {}

\* C3 amended: such a call returns -1, leaves B as it was (never truncated,
\* written or removed) and copies nothing; errno is EEXIST unless the source
\* open, the status query or the create itself failed for another reason,
\* and then errno is that step's error.
C3_ExistingDestination ==
    \A t \in Threads :
        (/\ Done(t) /\ call[t].op \in {"link", "linkat"} /\ HitExdev(t)
         /\ gh[t].newIno # NoIno)
        => /\ ret[t] = -1
           /\ \/ errno[t] = "EEXIST" /\ gh[t].failStep = "open_dst"
              \/ /\ gh[t].failStep \in {"open_src", "fstat", "open_dst"}
                 /\ gh[t].failErrno # "EEXIST"
                 /\ errno[t] = gh[t].failErrno
           /\ dir[NewOf(t)] = gh[t].newIno
           /\ InoData(inodes, dir[NewOf(t)]) = gh[t].newData
           /\ gh[t].fsops \cap {"write", "creat", "trunc", "unlink", "unlink_src"} = {}

\* C3 witness: the exclusive create of a linkat fallback found B present
C3_Witness ==
    \E t \in Threads :
        /\ Done(t) /\ call[t].op = "linkat" /\ HitExdev(t) /\ gh[t].newIno # NoIno
        /\ gh[t].failStep = "open_dst" /\ errno[t] = "EEXIST" /\ ret[t] = -1

\* C4: rename or renameat that hits the cross-device condition with B
\* present and no failing fallback step returns 0; B then holds A's former
\* content and nothing of its own, and A no longer exists.
C4_RenameReplaces ==
    \A t \in Threads :
        (/\ Done(t) /\ call[t].op \in {"rename", "renameat"} /\ HitExdev(t)
         /\ gh[t].newIno # NoIno /\ gh[t].failStep = "none" /\ gh[t].closeFail = {})
        => /\ ret[t] = 0
           /\ dir[NewOf(t)] # NoIno
           /\ InoData(inodes, dir[NewOf(t)]) = gh[t].oldData
           /\ dir[OldOf(t)] = NoIno

\* C4 witness: such a renameat returned 0 over an existing B
C4_Witness ==
    \E t \in Threads :
        /\ Done(t) /\ call[t].op = "renameat" /\ HitExdev(t)
        /\ gh[t].newIno # NoIno /\ gh[t].failStep = "none" /\ gh[t].closeFail = {}
        /\ ret[t] = 0
        /\ gh[t].newData # gh[t].oldData

\* C5: renameat2 with non-zero flags whose genuine call fails with EXDEV
\* never runs the move fallback: it returns the genuine value with errno
\* EXDEV and issues no system call of its own.
C5_FlaggedNeverFallsBack ==
    \A t \in Threads :
        (/\ call[t].op = "renameat2" /\ call[t].flags # 0
         /\ gh[t].gFn = "renameat2" /\ HitExdev(t))
        => /\ loc[t].fb = "none"
           /\ gh[t].fsops = {}
           /\ Done(t)
           /\ ret[t] = gh[t].gRet
           /\ errno[t] = "EXDEV"
           /\ dir[NewOf(t)] = gh[t].newIno
           /\ dir[OldOf(t)] = gh[t].oldIno

\* C5 witness: a flagged renameat2 came back with the cross-device error
C5_Witness ==
    \E t \in Threads :
        /\ Done(t) /\ call[t].op = "renameat2" /\ call[t].flags # 0
        /\ HitExdev(t) /\ ret[t] = -1 /\ errno[t] = "EXDEV"

\* the threads that issue calls
Callers == {t \in Threads : menu[t] # {}}

C7_DescriptorsClosedOnce ==
    \A t \in Threads :
        /\ ~gh[t].badClose
        /\ gh[t].owned \subseteq {loc[t].src_fd, loc[t].dst_fd}
        /\ \A x \in gh[t].owned : fdtab[x].ino # NoIno
        /\ Done(t) =>
             /\ gh[t].owned = {}
             /\ \A x \in Fds \ {CallerFd} : fdtab[x] = ClosedFd
             /\ fdtab[CallerFd].ino # NoIno

\* C7 witness: a move fallback whose final source removal failed returned
\* after it had opened and closed its descriptors
C7_Witness ==
    \E t \in Threads :
        /\ Done(t) /\ gh[t].failStep = "unlink_src" /\ ret[t] = -1
        /\ {"open", "creat", "close"} \subseteq gh[t].fsops
        /\ gh[t].owned = {}

\* C8: when a fallback step fails, errno at return is the errno that step
\* set, also when a close that follows sets errno itself.
C8_ErrnoOfFailingStep ==
    \A t \in Threads :
        (Done(t) /\ gh[t].failStep # "none")
        => errno[t] = gh[t].failErrno /\ ret[t] = -1

\* C8 witness: a copy failed, a close after it failed too (setting errno
\* itself), and the caller sees the copy's errno
C8_Witness ==
    \E t \in Threads :
        /\ Done(t) /\ gh[t].failStep = "sendfile" /\ gh[t].closeFail # {}
        /\ errno[t] = "EINVAL"

\* C9: without a genuine renameat2, renameat2 with flags == 0 is renameat
\* called with the same four arguments (its pass-through and its move
\* fallback), and renameat2 with non-zero flags returns -1 with errno ENOSYS
\* and issues no system call.
C9_NoGenuineRenameat2 ==
    \A t \in Threads :
        (/\ call[t].op = "renameat2" /\ loader["renameat2"] = "NULL"
         /\ pc[t] \notin {"entry", "dlsym", "call_real", "crashed"})
        => IF call[t].flags = 0
           THEN /\ loc[t].fn = "renameat"
                /\ gh[t].gFn = "renameat"
                /\ gh[t].gArgs = MkCall("renameat", call[t].olddirfd, call[t].oldpath,
                                        call[t].newdirfd, call[t].newpath, 0)
                /\ (loc[t].fb # "none") <=> HitExdev(t)
                /\ loc[t].fb \in {"none", "move_at"}
                /\ (Done(t) /\ loc[t].fb = "none")
                     => ret[t] = gh[t].gRet /\ errno[t] = gh[t].gErr /\ gh[t].fsops = {}
           ELSE /\ Done(t)
                /\ ret[t] = -1
                /\ errno[t] = "ENOSYS"
                /\ gh[t].gFn = "none"
                /\ gh[t].fsops = {}
                /\ dir[NewOf(t)] = gh[t].newIno
                /\ dir[OldOf(t)] = gh[t].oldIno

\* C9 witness: renameat2 with flags == 0 and no genuine renameat2 moved the
\* file through renameat's fallback
C9_Witness ==
    \E t \in Threads :
        /\ Done(t) /\ call[t].op = "renameat2" /\ call[t].flags = 0
        /\ loader["renameat2"] = "NULL"
        /\ loc[t].fb = "move_at" /\ ret[t] = 0 /\ dir[OldOf(t)] = NoIno

\* C10: after a successful cross-device link fallback the permission bits
\* of B equal those of A, for every source mode and every umask.
C10_PermissionsPreserved ==
    \A t \in Threads :
        (/\ Done(t) /\ call[t].op \in {"link", "linkat"} /\ HitExdev(t)
         /\ ret[t] = 0 /\ gh[t].newIno = NoIno)
        => PermBits(InoMode(inodes, dir[NewOf(t)])) = PermBits(gh[t].oldMode)

\* s is an initial part of q
IsPrefix(s, q) == Len(s) <= Len(q) /\ \A k \in 1..Len(s) : s[k] = q[k]

\* thread t's call ran a move fallback that created (or truncated) the
\* destination and then stopped at a failing copy or a failing source removal
MoveInterrupted(t) ==
    /\ Done(t) /\ IsMove(loc[t].fb)
    /\ gh[t].fsops \cap {"creat", "trunc"} # {}
    /\ gh[t].failStep \in {"copy_fstat", "sendfile", "unlink_src"}

\* C11 as stated: a cross-device rename(A,B) whose fallback stops after the
\* destination was created and before the source was removed (a failing
\* copy, or a failing source removal) returns with both A and B existing
\* and B holding A's content.
C11_Original ==
    \A t \in Threads :
        MoveInterrupted(t)
        => /\ dir[OldOf(t)] # NoIno
           /\ dir[NewOf(t)] # NoIno
           /\ InoData(inodes, dir[NewOf(t)]) = gh[t].oldData

\* C11 amended: such a rename returns -1 with A existing and unchanged and
\* B existing; B holds an initial part of A's content: nothing of it when
\* the copy's size query failed, and all of it when the step that failed
\* was the source removal and the close of the destination reported no
\* error.
C11_InterruptedMove ==
    \A t \in Threads :
        MoveInterrupted(t)
        => /\ ret[t] = -1
           /\ dir[OldOf(t)] = gh[t].oldIno
           /\ dir[OldOf(t)] # NoIno
           /\ InoData(inodes, dir[OldOf(t)]) = gh[t].oldData
           /\ dir[NewOf(t)] # NoIno
           /\ dir[NewOf(t)] # dir[OldOf(t)]
           /\ IsPrefix(InoData(inodes, dir[NewOf(t)]), gh[t].oldData)
           /\ gh[t].failStep = "copy_fstat" => InoData(inodes, dir[NewOf(t)]) = <<>>
           /\ (gh[t].failStep = "unlink_src" /\ "dst" \notin gh[t].closeFail)
                => InoData(inodes, dir[NewOf(t)]) = gh[t].oldData

\* C11 witness: a rename over an existing B whose copy failed after its
\* first byte left A whole and B with that one byte
C11_Witness ==
    \E t \in Threads :
        /\ MoveInterrupted(t) /\ call[t].op = "rename" /\ gh[t].newIno # NoIno
        /\ gh[t].failStep = "sendfile"
        /\ Len(InoData(inodes, dir[NewOf(t)])) = 1
        /\ Len(gh[t].oldData) > 1
        /\ dir[OldOf(t)] # NoIno

\* C12: a failure of any step of the emulation, a close of the source or
\* destination descriptor included, makes the call return -1 with errno set
\* to the failing step's error; in particular the call never returns 0 when
\* a close of the destination descriptor failed.
C12_AnyFailureReturnsError ==
    \A t \in Threads :
        (Done(t) /\ loc[t].fb # "none")
        => /\ gh[t].failStep # "none" => ret[t] = -1 /\ errno[t] = gh[t].failErrno
           /\ (gh[t].failStep = "none" /\ gh[t].closeFail # {})
                => ret[t] = -1 /\ errno[t] \in {"EINTR", "EIO"}
           /\ "dst" \in gh[t].closeFail => ret[t] # 0

\* A's content as of the call is whole at A
WholeAtOld(t) ==
    /\ dir[OldOf(t)] = gh[t].oldIno
    /\ dir[OldOf(t)] # NoIno
    /\ InoData(inodes, dir[OldOf(t)]) = gh[t].oldData

\* A's content as of the call is whole at B
WholeAtNew(t) ==
    /\ dir[NewOf(t)] # NoIno
    /\ InoData(inodes, dir[NewOf(t)]) = gh[t].oldData

\* the move fallback removes the source only after the copy returned
\* success and both descriptors were closed
RemovalComesLast(t) ==
    (pc[t] = "unlink_src" \/ "unlink_src" \in gh[t].fsops)
    => /\ loc[t].result = 0
       /\ gh[t].owned = {}
       /\ gh[t].failStep \in {"none", "unlink_src"}

\* a move fallback that returned -1 because of a step before the source
\* removal left A in place and unchanged
EarlyFailureKeepsOld(t) ==
    (Done(t) /\ ret[t] = -1 /\ gh[t].failStep \notin {"none", "unlink_src"})
    => WholeAtOld(t)

\* C13: in the move fallback the source is removed only after the copy
\* returned success and both descriptors were closed; so in every state of
\* a single rename fallback A's original content is whole at A or whole at
\* B, and when the fallback returns -1 because of a step before the source
\* removal, A still exists with unchanged content.
C13_SourceRemovedLast ==
    \A t \in Threads :
        IsMove(loc[t].fb)
        => /\ RemovalComesLast(t)
           /\ WholeAtOld(t) \/ WholeAtNew(t)
           /\ EarlyFailureKeepsOld(t)

\* C14: copy_fd always terminates: whatever the transfers return (all, a
\* part, or zero bytes without an error, as when the source shrank after
\* its size was queried), a copy_fd that was entered returns.
C14_CopyTerminates ==
    \A t \in Threads : (pc[t] = "copy_fstat") ~> (pc[t] = "close")

\* C15: within one fallback each of the steps open-source, status query,
\* remove-destination, create-destination and remove-source (and the copy)
\* is attempted at most once, and after the first failing step no step
\* other than closing the opened descriptors is executed.
C15_NoRetryAbortOnFailure ==
    \A t \in Threads :
        /\ \A s \in CountedSteps : gh[t].tries[s] <= 1
        /\ gh[t].afterFail = {}
        /\ gh[t].tries["unlink_dst"] = 1 /\ gh[t].failStep = "unlink_dst"
             => gh[t].tries["open_dst"] = 0
        /\ gh[t].failStep \in {"open_src", "fstat", "unlink_dst", "open_dst"}
             => gh[t].tries["copy"] = 0 /\ "write" \notin gh[t].fsops
        /\ gh[t].failStep \in {"open_src", "fstat", "unlink_dst", "open_dst",
                                "copy_fstat", "sendfile"}
             => gh[t].tries["unlink_src"] = 0

\* C15 witness: a move fallback whose removal of the destination failed
\* returned after closing the source, with no create, copy or source
\* removal attempted
C15_Witness ==
    \E t \in Threads :
        /\ Done(t) /\ gh[t].failStep = "unlink_dst" /\ ret[t] = -1
        /\ gh[t].tries["open_src"] = 1 /\ gh[t].tries["unlink_dst"] = 1
        /\ gh[t].tries["open_dst"] = 0 /\ gh[t].tries["copy"] = 0
        /\ "close" \in gh[t].fsops

\* thread t's call is a linkat with AT_EMPTY_PATH and an empty or null old
\* path whose genuine call failed with EXDEV
EmptyPathLink(t) ==
    /\ call[t].op = "linkat"
    /\ BitAnd(call[t].flags, AT_EMPTY_PATH) # 0
    /\ IsEmptyPath(call[t].oldpath)
    /\ HitExdev(t)

\* C16: a linkat with AT_EMPTY_PATH and an empty (or null) old path that
\* hits the cross-device condition copies from a duplicate of the caller's
\* descriptor olddirfd and never opens the source by name; the caller's own
\* descriptor stays open (only the duplicate is closed), and the copy reads
\* the source from byte offset zero whatever the position of the caller's
\* descriptor (which is 1 here, and stays 1).
C16_CopiesFromDuplicate ==
    \A t \in Threads :
        EmptyPathLink(t)
        => /\ loc[t].fb = "copy_fd"
           /\ "open" \notin gh[t].fsops
           /\ call[t].olddirfd \notin gh[t].owned
           /\ loc[t].src_fd # call[t].olddirfd
           /\ fdtab[call[t].olddirfd] = [ino |-> gh[t].oldIno, pos |-> 1]
           /\ "dup" \in gh[t].fsops
                => /\ gh[t].tries["open_src"] = 1
                   /\ Done(t) \/ fdtab[loc[t].src_fd].ino = gh[t].oldIno
           /\ "write" \in gh[t].fsops
                => IsPrefix(InoData(inodes, dir[NewOf(t)]), gh[t].oldData)
           /\ (Done(t) /\ gh[t].failStep = "none" /\ gh[t].closeFail = {})
                => /\ ret[t] = 0
                   /\ InoData(inodes, dir[NewOf(t)]) = gh[t].oldData

\* C16 witness: such a linkat, given a null old path and a descriptor
\* positioned past the first byte, copied the whole file and returned 0
\* with the caller's descriptor open
C16_Witness ==
    \E t \in Threads :
        /\ EmptyPathLink(t) /\ Done(t) /\ call[t].oldpath = NullPath
        /\ ret[t] = 0 /\ gh[t].closeFail = {}
        /\ fdtab[call[t].olddirfd].pos > 0
        /\ Len(InoData(inodes, dir[NewOf(t)])) = MaxLen
        /\ InoData(inodes, dir[NewOf(t)])[1] = gh[t].oldData[1]
        /\ "dup" \in gh[t].fsops

\* thread t's call is a link or linkat that ran its fallback
LinkFellBack(t) == call[t].op \in {"link", "linkat"} /\ loc[t].fb # "none"

\* C17: the link fallback rolls nothing back and removes nothing: on every
\* path it unlinks neither the destination nor the source, so a destination
\* created by a fallback that then fails stays in place (with part of the
\* content, possibly), and the call returns -1.
C17_LinkRemovesNothing ==
    \A t \in Threads :
        LinkFellBack(t)
        => /\ gh[t].fsops \cap {"unlink", "unlink_dst", "unlink_src"} = {}
           /\ gh[t].tries["unlink_dst"] = 0 /\ gh[t].tries["unlink_src"] = 0
           /\ ~IsEmptyPath(call[t].oldpath) => dir[OldOf(t)] = gh[t].oldIno
           /\ gh[t].oldIno # NoIno => inodes[gh[t].oldIno].data = gh[t].oldData
           /\ "creat" \in gh[t].fsops
                => /\ dir[NewOf(t)] # NoIno
                   /\ IsPrefix(InoData(inodes, dir[NewOf(t)]), gh[t].oldData)
           /\ "creat" \notin gh[t].fsops => dir[NewOf(t)] = gh[t].newIno
           /\ (Done(t) /\ gh[t].failStep # "none") => ret[t] = -1

\* C17 witness: a link whose copy failed after its first byte returned -1
\* and left the destination it had created, holding that byte
C17_Witness ==
    \E t \in Threads :
        /\ LinkFellBack(t) /\ Done(t) /\ call[t].op = "link" /\ ret[t] = -1
        /\ "creat" \in gh[t].fsops /\ gh[t].failStep = "sendfile"
        /\ dir[NewOf(t)] # NoIno
        /\ Len(InoData(inodes, dir[NewOf(t)])) = 1
        /\ Len(gh[t].oldData) > 1

\* q holds, at each of its positions, the byte one of the sources has there
\* or the zero of a hole
IsMixture(q, srcs) ==
    /\ \E s \in srcs : Len(q) <= Len(s)
    /\ \A k \in 1..Len(q) :
         q[k] = 0 \/ \E s \in srcs : k <= Len(s) /\ q[k] = s[k]

\* two callers each renamed their own source onto "b": both calls have
\* returned
BothRenamed ==
    /\ Cardinality(Callers) = 2
    /\ \A t \in Callers :
         /\ Done(t) /\ call[t].op = "rename" /\ call[t].newpath = "b"
    /\ \A t, u \in Callers : t # u => call[t].oldpath # call[u].oldpath

\* C18: the rename fallback gives no mutual exclusion: two concurrent
\* cross-device renames of different sources onto one destination both run
\* the fallback, both return 0 and both sources are removed, while the
\* destination holds the content of at most one of them, or a mixture of
\* the two.
C18_RenamesBothSucceed ==
    BothRenamed
    => /\ \A t \in Callers :
            /\ HitExdev(t)
            /\ ret[t] = 0
            /\ dir[OldOf(t)] = NoIno
       /\ dir["b"] # NoIno
       /\ IsMixture(InoData(inodes, dir["b"]), {gh[t].oldData : t \in Callers})

\* C18 witness: both renames returned 0, both sources are gone, and the
\* destination holds the content of neither source
C18_Witness ==
    /\ BothRenamed
    /\ \A t \in Callers : ret[t] = 0 /\ dir[OldOf(t)] = NoIno
    /\ \A t \in Callers : InoData(inodes, dir["b"]) # gh[t].oldData

\* C19: no entry point ever calls through a null resolved address: when the
\* loader has no next definition of link, linkat, rename, renameat or
\* renameat2, the entry point does not make the genuine call, and a call
\* that cannot be served returns -1 with errno ENOSYS.
C19_NeverCallsNull ==
    /\ ~crashed
    /\ \A t \in Threads :
         /\ pc[t] # "crashed"
         /\ gh[t].gFn # "none" => loader[gh[t].gFn] = "libc"
         /\ (Done(t) /\ real[loc[t].fn] = "NULL")
              => ret[t] = -1 /\ errno[t] = "ENOSYS"

\* C20 as stated: for each overridden name the loader is queried only on a
\* thread's first invocation and the result, a null result too, is cached
\* for the life of the process: no thread queries the loader twice for one
\* name.
C20_Original ==
    \A t \in Threads : \A n \in Names : asked[t][n] <= 1

\* the cached pointers hold nothing but what the loader answered, every
\* thread the same, and a thread queries twice only for a name whose
\* answer is null
CacheHoldsAnswer ==
    /\ \A n \in Names : real[n] # "NULL" => real[n] = "libc" /\ loader[n] = "libc"
    /\ \A t \in Threads : \A n \in Names : asked[t][n] >= 2 => loader[n] = "NULL"

\* a cached pointer that is not null never changes, and an invocation
\* queries the loader only if it found the cached pointer null
CacheStep ==
    /\ \A n \in Names : real[n] # "NULL" => real'[n] = real[n]
    /\ \A t \in Threads :
         (pc[t] = "entry" /\ real[loc[t].fn] # "NULL") => pc'[t] # "dlsym"
    /\ \A t \in Threads : \A n \in Names :
         asked'[t][n] # asked[t][n] => pc[t] = "dlsym" /\ loc[t].fn = n

\* C20 amended: an invocation queries the loader exactly when it finds the
\* cached pointer null; a non-null result is cached for the life of the
\* process and never queried again by an invocation that finds it, while a
\* null result is not cached and is queried again by every later
\* invocation; racing first calls all store the same address, so the cached
\* value never changes once it is non-null.
C20_Memoized == []CacheHoldsAnswer /\ [][CacheStep]_vars

\* C20 witness: thread 1 has returned from its second renameat2 on a
\* platform without a next renameat2, having queried the loader in both
\* invocations, while the pointer it cached for renameat was queried once
C20_Witness ==
    /\ Done(1) /\ callsLeft[1] = MaxCalls - 1
    /\ call[1].op = "renameat2" /\ loc[1].fn = "renameat"
    /\ loader["renameat2"] = "NULL" /\ asked[1]["renameat2"] = 2
    /\ real["renameat"] = "libc" /\ asked[1]["renameat"] = 1

====
